---- MODULE Spec2Model ----
(***************************************************************************)
(* Model of the snake game engine (src/js/game.js): the game state         *)
(* machine, the tick algorithm, direction buffering, food placement and    *)
(* the tick timer.                                                         *)
(*                                                                         *)
(* Every engine function is an operator from an engine record to the SET   *)
(* of engine records it can leave behind (the only nondeterminism is       *)
(* Math.random in spawnFood, whose draws are the parameter rnd), so that a *)
(* function calling another one (start -> reset -> spawnFood) is modelled  *)
(* by composing the operators.  The actions at the end apply one operator  *)
(* to the current state.                                                   *)
(*                                                                         *)
(* The persistence store (src/js/storage.js), the auth module              *)
(* (src/js/auth.js) and the page's handlers (src/js/app.js) are modelled   *)
(* the same way over the localStorage item.  Spec and SpecLong explore the *)
(* engine alone, SpecAuth the login, guest and logout handlers over every  *)
(* store an earlier visit can have left, SpecApp the page with games run   *)
(* to the right wall.                                                      *)
(***************************************************************************)
EXTENDS Integers, Sequences, FiniteSets, TLC

----------------------------------------------------------------------------
(* Program constants                                                       *)

CONFIG ==
    [gridSize |-> 20, cellSize |-> 20, initialSpeed |-> 150,
     speedIncrement |-> 2, minSpeed |-> 50]

DIRECTIONS ==
    [UP |-> <<0, -1>>, DOWN |-> <<0, 1>>, LEFT |-> <<-1, 0>>, RIGHT |-> <<1, 0>>]

STATES ==
    [IDLE |-> "idle", PLAYING |-> "playing", PAUSED |-> "paused",
     GAME_OVER |-> "game_over"]

\* gameLoop = null: the engine holds no timer handle (handles are 1, 2, ...)
NoTimer == 0

\* food = null before the first reset
NoFood == <<>>

----------------------------------------------------------------------------
(* Bounds of the exploration                                               *)

\* ticks explored per game (since the last reset): the snake starts 9 cells
\* from the right wall, which the 10th tick of a straight game hits
MaxTicks == 10

\* turns are queued only before the first TurnTicks ticks of a game
TurnTicks == 3

\* Math.floor(Math.random() * gridSize) is sampled from one cell left of the
\* grid centre to FoodReach cells right of it
FoodReach == 0

\* ticks of the scripted long game (SpecLong)
MaxLongTicks == 56

\* the longest secret typed into the login form has MaxSecretLen characters
MaxSecretLen == 4

\* game overs explored for one registered user (SpecApp)
MaxGames == 2

\* foods that Math.random puts right ahead of the head in one game (SpecApp)
MaxAppFoods == 1

----------------------------------------------------------------------------
(* State                                                                   *)

VARIABLES
    canvas,         \* TRUE once init bound the canvas and its 2d context
    listening,      \* handleKeyDown is registered on document
    snake,          \* sequence of cells <<x, y>>, head first
    food,           \* cell or NoFood
    direction,      \* committed direction
    nextDirection,  \* pending direction
    score,
    gameState,
    gameLoop,       \* timer handle held by the engine, or NoTimer
    speed,
    onScoreUpdate,  \* TRUE when a callback is registered
    onGameOver,     \* TRUE when a callback is registered
    timers,         \* the host's live interval timers: records [id, ms]
    hist,           \* history: what happened since the last reset
    last,           \* history: the last operation and the state it ran in
    item,           \* the localStorage item 'snake_game_data'
    page,           \* "loading", "ready" once the page's init has run and
                    \* bound the buttons, "failed" when it threw
    screen,         \* the screen that is not hidden: "login", "game", or
                    \* "none" before a show function has run
    overlay,        \* the game overlay: whether it is hidden, and its title
    currentScore,   \* the text of the element that shows the score
    registered,     \* history: the secret each user was registered with
    call            \* history: the last handler of the page and its result

vars ==
    <<canvas, listening, snake, food, direction, nextDirection, score,
      gameState, gameLoop, speed, onScoreUpdate, onGameOver, timers, hist,
      last, item, page, screen, overlay, currentScore, registered, call>>

\* the page around the engine: the store, the screens, their history
pageVars == <<item, page, screen, overlay, currentScore, registered, call>>

\* what an element has in the document as it was loaded, before a handler
\* has written it
AsLoaded == "as loaded"

\* the overlay and the score's text of the document as it was loaded
LoadedOverlay == [display |-> AsLoaded, title |-> AsLoaded]
LoadedText == <<AsLoaded>>

\* the engine and its host as one record
Eng ==
    [canvas |-> canvas, listening |-> listening, snake |-> snake,
     food |-> food, direction |-> direction, nextDirection |-> nextDirection,
     score |-> score, gameState |-> gameState, gameLoop |-> gameLoop,
     speed |-> speed, onScoreUpdate |-> onScoreUpdate,
     onGameOver |-> onGameOver, timers |-> timers, hist |-> hist,
     threw |-> FALSE]

\* history counters, all since the last reset
NoHist ==
    [ticks |-> 0, eaten |-> 0, scoreCalls |-> 0, scoreArg |-> 0,
     overCalls |-> 0, overArg |-> 0]

----------------------------------------------------------------------------
(* Helpers                                                                 *)

Range(s) == {s[i] : i \in 1..Len(s)}

Add(c, d) == <<c[1] + d[1], c[2] + d[2]>>

Reverse(d) == <<0 - d[1], 0 - d[2]>>

Cells == (0..(CONFIG.gridSize - 1)) \X (0..(CONFIG.gridSize - 1))

Centre == CONFIG.gridSize \div 2

\* Math.random: the values of Math.floor(Math.random() * gridSize) sampled
\* at first (j = 0), and once the loop of spawnFood has redrawn over the
\* whole of the windows before (j = 1, 2, ...: one more cell on either side)
RandCoords(j) ==
    LET lo == Centre - 1 - j
        hi == Centre + FoodReach + j
    IN  (IF lo < 0 THEN 0 ELSE lo)..
            (IF hi >= CONFIG.gridSize THEN CONFIG.gridSize - 1 ELSE hi)

RandCells(j) == RandCoords(j) \X RandCoords(j)

\* the cells Math.random is sampled from during one spawnFood for the snake
\* snk: the first window with a cell that is off the snake
RECURSIVE Window(_, _)
Window(snk, j) ==
    IF \E c \in RandCells(j) : c \notin Range(snk) THEN RandCells(j)
    ELSE IF j >= CONFIG.gridSize THEN {}
    ELSE Window(snk, j + 1)

Draws(snk) == Window(snk, 0)

----------------------------------------------------------------------------
(* The host: interval timers and rendering                                 *)

\* setInterval(update, ms): the timer the host creates (a fresh handle)
setInterval(ts, ms) ==
    [id |-> CHOOSE i \in 1..(Cardinality(ts) + 1) : \A t \in ts : t.id # i,
     ms |-> ms]

\* clearInterval(handle): no effect for null or an unknown handle
clearInterval(ts, handle) == {t \in ts : t.id # handle}

\* render() draws on ctx and changes no engine state; it throws a TypeError
\* while no canvas is bound (ctx is undefined before the first init)
render(g) == [g EXCEPT !.threw = ~g.canvas]

----------------------------------------------------------------------------
(* The engine                                                              *)

\* a faulty spawnFood: the first draw is taken, on the snake or not
spawnFood_noRetry(snk, rnd) == rnd

\* the cells the sampling loop of spawnFood can end on, when Math.random
\* yields the cells of rnd: it redraws until the cell is on no snake segment
\* (and never ends when there is none)
spawnFood(snk, rnd) == {c \in rnd : \A i \in 1..Len(snk) : snk[i] # c}

\* a faulty reset: the live timer is not cancelled
reset_keepTimer(g, rnd) ==
    LET startX == CONFIG.gridSize \div 2
        startY == CONFIG.gridSize \div 2
        snk == << <<startX, startY>>, <<startX - 1, startY>>,
                  <<startX - 2, startY>> >>
        g2 == [g EXCEPT !.gameLoop = NoTimer,
                        !.snake = snk,
                        !.direction = DIRECTIONS.RIGHT,
                        !.nextDirection = DIRECTIONS.RIGHT,
                        !.score = 0,
                        !.speed = CONFIG.initialSpeed,
                        !.hist = NoHist]
    IN  {render([g2 EXCEPT !.food = f, !.gameState = STATES.IDLE]) :
            f \in spawnFood(snk, rnd)}

reset(g, rnd) ==
    LET startX == CONFIG.gridSize \div 2
        startY == CONFIG.gridSize \div 2
        snk == << <<startX, startY>>, <<startX - 1, startY>>,
                  <<startX - 2, startY>> >>
        g1 == IF g.gameLoop # NoTimer
              THEN [g EXCEPT !.timers = clearInterval(@, g.gameLoop),
                             !.gameLoop = NoTimer]
              ELSE g
        g2 == [g1 EXCEPT !.snake = snk,
                         !.direction = DIRECTIONS.RIGHT,
                         !.nextDirection = DIRECTIONS.RIGHT,
                         !.score = 0,
                         !.speed = CONFIG.initialSpeed,
                         !.hist = NoHist]
    IN  {render([g2 EXCEPT !.food = f, !.gameState = STATES.IDLE]) :
            f \in spawnFood(snk, rnd)}

\* a faulty start: the timer is created before the reset, which cancels it
start_timerFirst(g, rnd) ==
    IF g.gameState = STATES.PLAYING THEN {g}
    ELSE LET t == setInterval(g.timers, g.speed)
             g1 == [g EXCEPT !.gameLoop = t.id, !.timers = @ \cup {t}]
             fresh == IF g.gameState = STATES.GAME_OVER
                         \/ g.gameState = STATES.IDLE
                      THEN reset(g1, rnd) ELSE {g1}
         IN  {IF h.threw THEN h
              ELSE [h EXCEPT !.gameState = STATES.PLAYING] : h \in fresh}

\* a faulty start: no early return while Playing
start_noGuard(g, rnd) ==
    LET fresh == IF g.gameState = STATES.GAME_OVER
                    \/ g.gameState = STATES.IDLE
                 THEN reset(g, rnd) ELSE {g}
    IN  {IF h.threw THEN h
         ELSE LET t == setInterval(h.timers, h.speed)
              IN  [h EXCEPT !.gameState = STATES.PLAYING,
                            !.gameLoop = t.id,
                            !.timers = @ \cup {t}] : h \in fresh}

start(g, rnd) ==
    IF g.gameState = STATES.PLAYING THEN {g}
    ELSE LET fresh == IF g.gameState = STATES.GAME_OVER
                         \/ g.gameState = STATES.IDLE
                      THEN reset(g, rnd) ELSE {g}
         IN  {IF h.threw THEN h
              ELSE LET t == setInterval(h.timers, h.speed)
                   IN  [h EXCEPT !.gameState = STATES.PLAYING,
                                 !.gameLoop = t.id,
                                 !.timers = @ \cup {t}] : h \in fresh}

\* a faulty togglePause: the resume branch is taken from every state but
\* Playing
togglePause_anyState(g) ==
    IF g.gameState = STATES.PLAYING
    THEN [g EXCEPT !.gameState = STATES.PAUSED,
                   !.timers = clearInterval(@, g.gameLoop),
                   !.gameLoop = NoTimer]
    ELSE LET t == setInterval(g.timers, g.speed)
         IN  [g EXCEPT !.gameState = STATES.PLAYING,
                       !.gameLoop = t.id,
                       !.timers = @ \cup {t}]

togglePause(g) ==
    IF g.gameState = STATES.PLAYING
    THEN [g EXCEPT !.gameState = STATES.PAUSED,
                   !.timers = clearInterval(@, g.gameLoop),
                   !.gameLoop = NoTimer]
    ELSE IF g.gameState = STATES.PAUSED
    THEN LET t == setInterval(g.timers, g.speed)
         IN  [g EXCEPT !.gameState = STATES.PLAYING,
                       !.gameLoop = t.id,
                       !.timers = @ \cup {t}]
    ELSE g

\* a faulty checkCollision: the self-collision loop leaves out the tail
checkCollision_noTail(head, snk) ==
    \/ head[1] < 0 \/ head[1] >= CONFIG.gridSize
    \/ head[2] < 0 \/ head[2] >= CONFIG.gridSize
    \/ \E i \in 1..(Len(snk) - 1) : snk[i] = head

\* a faulty checkCollision: the walls are not checked
checkCollision_selfOnly(head, snk) ==
    \E i \in 1..Len(snk) : snk[i] = head

checkCollision(head, snk) ==
    \/ head[1] < 0 \/ head[1] >= CONFIG.gridSize
    \/ head[2] < 0 \/ head[2] >= CONFIG.gridSize
    \/ \E i \in 1..Len(snk) : snk[i] = head

endGame(g) ==
    LET g1 == [g EXCEPT !.gameState = STATES.GAME_OVER,
                        !.timers = clearInterval(@, g.gameLoop),
                        !.gameLoop = NoTimer]
        g2 == IF g1.onGameOver
              THEN [g1 EXCEPT !.hist.overCalls = @ + 1,
                              !.hist.overArg = g1.score]
              ELSE g1
    IN  render(g2)

\* a faulty speed-up: the floor is tested with >= and so passed once
speedUp_pastFloor(g) ==
    IF g.speed >= CONFIG.minSpeed
    THEN LET ms == g.speed - CONFIG.speedIncrement
             ts == clearInterval(g.timers, g.gameLoop)
             t == setInterval(ts, ms)
         IN  [g EXCEPT !.speed = ms, !.timers = ts \cup {t}, !.gameLoop = t.id]
    ELSE g

\* a faulty speedUp: the running timer is not cancelled before the new one
\* is created
speedUp_noClear(g) ==
    IF g.speed > CONFIG.minSpeed
    THEN LET ms == g.speed - CONFIG.speedIncrement
             t == setInterval(g.timers, ms)
         IN  [g EXCEPT !.speed = ms, !.timers = @ \cup {t}, !.gameLoop = t.id]
    ELSE g

\* lines 258-263: the speed-up of a food-eating tick
speedUp(g) ==
    IF g.speed > CONFIG.minSpeed
    THEN LET ms == g.speed - CONFIG.speedIncrement
             ts == clearInterval(g.timers, g.gameLoop)
             t == setInterval(ts, ms)
         IN  [g EXCEPT !.speed = ms, !.timers = ts \cup {t}, !.gameLoop = t.id]
    ELSE g

\* a faulty eating branch: the callback is invoked before the score is
\* increased
eat_callFirst(g, rnd) ==
    LET g1 == IF g.onScoreUpdate
              THEN [g EXCEPT !.hist.scoreCalls = @ + 1,
                             !.hist.scoreArg = g.score]
              ELSE g
        g2 == [g1 EXCEPT !.score = @ + 10]
        g3 == speedUp(g2)
    IN  {[g3 EXCEPT !.food = f] : f \in spawnFood(g3.snake, rnd)}

\* lines 252-266: the food-eating branch of update, after the unshift
eat(g, rnd) ==
    LET g1 == [g EXCEPT !.score = @ + 10]
        g2 == IF g1.onScoreUpdate
              THEN [g1 EXCEPT !.hist.scoreCalls = @ + 1,
                              !.hist.scoreArg = g1.score]
              ELSE g1
        g3 == speedUp(g2)
    IN  {[g3 EXCEPT !.food = f] : f \in spawnFood(g3.snake, rnd)}

\* a faulty update: the last segment is removed on a food-eating tick too
update_noGrowth(g, rnd) ==
    IF g.gameState # STATES.PLAYING THEN {g}
    ELSE LET g1 == [g EXCEPT !.direction = g.nextDirection]
             head == g1.snake[1]
             newHead == <<head[1] + g1.direction[1],
                          head[2] + g1.direction[2]>>
         IN  IF checkCollision(newHead, g1.snake) THEN {endGame(g1)}
             ELSE LET g2 == [g1 EXCEPT !.snake = <<newHead>> \o @]
                      moved ==
                          IF newHead = g2.food THEN eat(g2, rnd)
                          ELSE {g2}
                  IN  {render([m EXCEPT !.snake = SubSeq(@, 1, Len(@) - 1)]) :
                          m \in moved}

update(g, rnd) ==
    IF g.gameState # STATES.PLAYING THEN {g}
    ELSE LET g1 == [g EXCEPT !.direction = g.nextDirection]
             head == g1.snake[1]
             newHead == <<head[1] + g1.direction[1],
                          head[2] + g1.direction[2]>>
         IN  IF checkCollision(newHead, g1.snake) THEN {endGame(g1)}
             ELSE LET g2 == [g1 EXCEPT !.snake = <<newHead>> \o @]
                      moved ==
                          IF newHead = g2.food THEN eat(g2, rnd)
                          ELSE {[g2 EXCEPT !.snake =
                                     SubSeq(@, 1, Len(@) - 1)]}
                  IN  {render(m) : m \in moved}

\* the key codes delivered to the listener
KeyCodes ==
    {"Space", "ArrowUp", "KeyW", "ArrowDown", "KeyS", "ArrowLeft", "KeyA",
     "ArrowRight", "KeyD", "Enter"}

\* a faulty handleKeyDown: a key is validated against the pending direction
handleKeyDown_pending(g, code, rnd) ==
    IF code = "Space"
    THEN IF g.gameState = STATES.IDLE \/ g.gameState = STATES.GAME_OVER
         THEN start(g, rnd)
         ELSE {togglePause(g)}
    ELSE IF g.gameState # STATES.PLAYING THEN {g}
    ELSE LET newDirection ==
                 IF code \in {"ArrowUp", "KeyW"}
                 THEN IF g.nextDirection # DIRECTIONS.DOWN
                      THEN DIRECTIONS.UP ELSE <<>>
                 ELSE IF code \in {"ArrowDown", "KeyS"}
                 THEN IF g.nextDirection # DIRECTIONS.UP
                      THEN DIRECTIONS.DOWN ELSE <<>>
                 ELSE IF code \in {"ArrowLeft", "KeyA"}
                 THEN IF g.nextDirection # DIRECTIONS.RIGHT
                      THEN DIRECTIONS.LEFT ELSE <<>>
                 ELSE IF code \in {"ArrowRight", "KeyD"}
                 THEN IF g.nextDirection # DIRECTIONS.LEFT
                      THEN DIRECTIONS.RIGHT ELSE <<>>
                 ELSE <<>>
         IN  IF newDirection # <<>>
             THEN {[g EXCEPT !.nextDirection = newDirection]}
             ELSE {g}

\* a faulty handleKeyDown: the start/pause key is left to another listener
handleKeyDown_movementOnly(g, code, rnd) ==
    IF code = "Space" THEN {g}
    ELSE IF g.gameState # STATES.PLAYING THEN {g}
    ELSE LET newDirection ==
                 IF code \in {"ArrowUp", "KeyW"}
                 THEN IF g.direction # DIRECTIONS.DOWN
                      THEN DIRECTIONS.UP ELSE <<>>
                 ELSE IF code \in {"ArrowDown", "KeyS"}
                 THEN IF g.direction # DIRECTIONS.UP
                      THEN DIRECTIONS.DOWN ELSE <<>>
                 ELSE IF code \in {"ArrowLeft", "KeyA"}
                 THEN IF g.direction # DIRECTIONS.RIGHT
                      THEN DIRECTIONS.LEFT ELSE <<>>
                 ELSE IF code \in {"ArrowRight", "KeyD"}
                 THEN IF g.direction # DIRECTIONS.LEFT
                      THEN DIRECTIONS.RIGHT ELSE <<>>
                 ELSE <<>>
         IN  IF newDirection # <<>>
             THEN {[g EXCEPT !.nextDirection = newDirection]}
             ELSE {g}

handleKeyDown(g, code, rnd) ==
    IF code = "Space"
    THEN IF g.gameState = STATES.IDLE \/ g.gameState = STATES.GAME_OVER
         THEN start(g, rnd)
         ELSE {togglePause(g)}
    ELSE IF g.gameState # STATES.PLAYING THEN {g}
    ELSE LET newDirection ==
                 IF code \in {"ArrowUp", "KeyW"}
                 THEN IF g.direction # DIRECTIONS.DOWN
                      THEN DIRECTIONS.UP ELSE <<>>
                 ELSE IF code \in {"ArrowDown", "KeyS"}
                 THEN IF g.direction # DIRECTIONS.UP
                      THEN DIRECTIONS.DOWN ELSE <<>>
                 ELSE IF code \in {"ArrowLeft", "KeyA"}
                 THEN IF g.direction # DIRECTIONS.RIGHT
                      THEN DIRECTIONS.LEFT ELSE <<>>
                 ELSE IF code \in {"ArrowRight", "KeyD"}
                 THEN IF g.direction # DIRECTIONS.LEFT
                      THEN DIRECTIONS.RIGHT ELSE <<>>
                 ELSE <<>>
         IN  IF newDirection # <<>>
             THEN {[g EXCEPT !.nextDirection = newDirection]}
             ELSE {g}

\* the callbacks objects init is given: the presentation layer registers
\* both callbacks (app.js, showGameScreen); {} is the default argument
CallbackSets ==
    {[onScoreUpdate |-> TRUE, onGameOver |-> TRUE],
     [onScoreUpdate |-> FALSE, onGameOver |-> FALSE]}

init(g, callbacks, rnd) ==
    LET g1 == [g EXCEPT !.canvas = TRUE,
                        !.onScoreUpdate = callbacks.onScoreUpdate,
                        !.onGameOver = callbacks.onGameOver]
    IN  {[h EXCEPT !.listening = TRUE] : h \in reset(g1, rnd)}

destroy(g) ==
    LET g1 == [g EXCEPT !.listening = FALSE]
    IN  IF g1.gameLoop # NoTimer
        THEN [g1 EXCEPT !.timers = clearInterval(@, g1.gameLoop),
                        !.gameLoop = NoTimer]
        ELSE g1

----------------------------------------------------------------------------
(* storage.js: the persistence store over one localStorage item.  A string *)
(* is a sequence of one-character strings.                                 *)

\* JavaScript's null and undefined where a string may stand
Null == <<"null">>
Undefined == <<"undefined">>

\* JavaScript's null where a user record may stand
NoUser == [type |-> "null"]

\* a member that every object inherits from Object.prototype, and one name
\* of such a member
ProtoMember == [type |-> "function"]
ProtoNames == {<<"v", "a", "l", "u", "e", "O", "f">>}

\* the empty users mapping {}
NoUsers == [n \in {} |-> NoUser]

\* lines 31-36
getDefaultData ==
    [kind |-> "object", hasUsers |-> TRUE, users |-> NoUsers,
     currentUser |-> Null]

\* other values JSON.parse can return: null, a number, an object that has no
\* users key (a missing currentUser key reads as undefined)
JsonNull == [getDefaultData EXCEPT !.kind = "null", !.hasUsers = FALSE]
JsonNumber == [getDefaultData EXCEPT !.kind = "number", !.hasUsers = FALSE]
JsonNoUsers ==
    [getDefaultData EXCEPT !.hasUsers = FALSE, !.currentUser = Undefined]

\* JSON.stringify(data) as the item's text, and JSON.parse of that text
stringify(data) == [form |-> "json", value |-> data]
parse(text) == text.value

\* what localStorage.getItem can return besides such a text: null (no item),
\* the empty string, and a text that JSON.parse rejects
NoItem == [form |-> "absent", value |-> getDefaultData]
EmptyItem == [form |-> "empty", value |-> getDefaultData]
GarbageItem == [form |-> "garbage", value |-> getDefaultData]

\* lines 14-25: a falsy item and a text that does not parse give the default
getData(text) ==
    IF text.form = "json" THEN parse(text) ELSE getDefaultData

\* line 42-44
saveData(data) == stringify(data)

\* what a storage function returned, the item it left, whether it threw
Returns(v, text) == [ret |-> v, item |-> text, threw |-> FALSE]
Throws(text) == [ret |-> FALSE, item |-> text, threw |-> TRUE]

\* reading data.users[...] throws a TypeError unless data is an object with
\* a users mapping (null has no properties, undefined[...] throws)
HasUsers(data) == data.kind = "object" /\ data.hasUsers

\* data.users[username]: an own record, an inherited member, or undefined
Lookup(data, username) ==
    IF username \in DOMAIN data.users THEN data.users[username]
    ELSE IF username \in ProtoNames THEN ProtoMember
    ELSE NoUser

\* the mapping m with the key k set to v
Put(m, k, v) == [n \in DOMAIN m \cup {k} |-> IF n = k THEN v ELSE m[n]]

\* the characters of the secrets and their UTF-16 code units (charCodeAt)
SecretChars == {"A", "B", "a"}
charCodeAt(c) == CASE c = "A" -> 65 [] c = "B" -> 66 [] c = "a" -> 97

\* 32-bit integers are computed on their 16-bit halves
Half == 65536

\* the signed 32-bit integer with the unsigned halves hi and lo
Int32(hi, lo) ==
    IF hi >= Half \div 2 THEN (hi - Half) * Half + lo ELSE hi * Half + lo

\* the unsigned halves of the signed 32-bit integer h
Lo(h) == h % Half
Hi(h) == ((h - Lo(h)) \div Half) % Half

\* lines 55-56: ((hash << 5) - hash) + char, then hash & hash: 31 * hash +
\* char wrapped to a signed 32-bit integer
hashStep(hash, char) ==
    LET lo == 31 * Lo(hash) + char
        hi == 31 * Hi(hash) + lo \div Half
    IN  Int32(hi % Half, lo % Half)

\* Number.prototype.toString(16) of an integer: hexadecimal digits, with a
\* minus sign for a negative one
HexDigits ==
    <<"0", "1", "2", "3", "4", "5", "6", "7",
      "8", "9", "a", "b", "c", "d", "e", "f">>

RECURSIVE HexOf(_)
HexOf(n) ==
    IF n < 16 THEN <<HexDigits[n + 1]>>
    ELSE HexOf(n \div 16) \o <<HexDigits[(n % 16) + 1]>>

toString16(n) ==
    IF n >= 0 THEN HexOf(n)
    ELSE LET d == (16 - (n % 16)) % 16
             q == 0 - ((n + d) \div 16)
         IN  <<"-">> \o (IF q = 0 THEN <<>> ELSE HexOf(q))
                     \o <<HexDigits[d + 1]>>

\* lines 51-59
RECURSIVE hashFrom(_, _, _)
hashFrom(hash, str, i) ==
    IF i > Len(str) THEN hash
    ELSE hashFrom(hashStep(hash, charCodeAt(str[i])), str, i + 1)

\* a faulty simpleHash: the secret itself is stored
simpleHash_plain(str) == str

simpleHash(str) == toString16(hashFrom(0, str, 1))

\* lines 66-69
getUser(text, username) ==
    LET data == getData(text)
    IN  IF ~HasUsers(data) THEN Throws(text)
        ELSE Returns(Lookup(data, username), text)

\* lines 77-94; now is new Date().toISOString(), a point in time
createUser(text, username, password, now) ==
    LET data == getData(text)
        user == [password |-> simpleHash(password),
                 createdAt |-> now, lastLogin |-> now,
                 highScore |-> 0, gamesPlayed |-> 0, totalScore |-> 0]
    IN  IF ~HasUsers(data) THEN Throws(text)
        ELSE Returns(user,
                     saveData([data EXCEPT !.users = Put(@, username, user)]))

\* user.password: an inherited member has no such property
passwordOf(user) == IF user = ProtoMember THEN Undefined ELSE user.password

\* lines 102-106
verifyPassword(text, username, password) ==
    LET got == getUser(text, username)
    IN  IF got.threw THEN Throws(text)
        ELSE IF got.ret = NoUser THEN Returns(FALSE, text)
        ELSE Returns(passwordOf(got.ret) = simpleHash(password), text)

\* lines 112-118; a property set on an inherited member is not serialised
updateLoginTime(text, username, now) ==
    LET data == getData(text)
    IN  IF ~HasUsers(data) THEN Throws(text)
        ELSE IF Lookup(data, username) = NoUser THEN Returns(Undefined, text)
        ELSE IF Lookup(data, username) = ProtoMember
        THEN Returns(Undefined, saveData(data))
        ELSE Returns(Undefined,
                     saveData([data EXCEPT !.users[username].lastLogin = now]))

\* lines 124-128: the assignment throws on null and is dropped on a number
\* (the script is not in strict mode)
setCurrentUser(text, username) ==
    LET data == getData(text)
    IN  IF data.kind = "null" THEN Throws(text)
        ELSE IF data.kind = "number" THEN Returns(Undefined, saveData(data))
        ELSE Returns(Undefined,
                     saveData([data EXCEPT !.currentUser = username]))

\* lines 134-137: a number has no currentUser property
getCurrentUser(text) ==
    LET data == getData(text)
    IN  IF data.kind = "null" THEN Throws(text)
        ELSE IF data.kind = "number" THEN Returns(Undefined, text)
        ELSE Returns(data.currentUser, text)

\* a faulty updateGameStats: the high score is replaced by every score
updateGameStats_lastScore(text, username, points) ==
    LET data == getData(text)
    IN  IF ~HasUsers(data) THEN Throws(text)
        ELSE IF Lookup(data, username) = NoUser THEN Returns(Undefined, text)
        ELSE IF Lookup(data, username) = ProtoMember
        THEN Returns(Undefined, saveData(data))
        ELSE LET user == data.users[username]
                 upd == [user EXCEPT !.gamesPlayed = @ + 1,
                                     !.totalScore = @ + points,
                                     !.highScore = points]
             IN  Returns(Undefined,
                         saveData([data EXCEPT !.users[username] = upd]))

\* lines 144-155; points is the score parameter
updateGameStats(text, username, points) ==
    LET data == getData(text)
    IN  IF ~HasUsers(data) THEN Throws(text)
        ELSE IF Lookup(data, username) = NoUser THEN Returns(Undefined, text)
        ELSE IF Lookup(data, username) = ProtoMember
        THEN Returns(Undefined, saveData(data))
        ELSE LET user == data.users[username]
                 upd == [user EXCEPT !.gamesPlayed = @ + 1,
                                     !.totalScore = @ + points,
                                     !.highScore =
                                         IF points > @ THEN points ELSE @]
             IN  Returns(Undefined,
                         saveData([data EXCEPT !.users[username] = upd]))

\* the statistics of no user, of a user record, and of an inherited member
ZeroStats == [highScore |-> 0, gamesPlayed |-> 0, totalScore |-> 0]
StatsOf(user) ==
    IF user = ProtoMember THEN [undefined |-> TRUE]
    ELSE [highScore |-> user.highScore, gamesPlayed |-> user.gamesPlayed,
          totalScore |-> user.totalScore, lastLogin |-> user.lastLogin]

\* lines 162-173
getUserStats(text, username) ==
    LET got == getUser(text, username)
    IN  IF got.threw THEN Throws(text)
        ELSE IF got.ret = NoUser THEN Returns(ZeroStats, text)
        ELSE Returns(StatsOf(got.ret), text)

----------------------------------------------------------------------------
(* auth.js                                                                 *)

\* the reserved name of the guest session
Guest == <<"_", "_", "g", "u", "e", "s", "t", "_", "_">>

\* the messages of the results, in English
MESSAGES ==
    [noUsername |-> "please enter a username",
     shortPassword |-> "the password needs at least 3 characters",
     loginOk |-> "logged in",
     wrongPassword |-> "wrong password",
     registered |-> "registered, welcome new player",
     guest |-> "guest mode started"]

\* line 18: the length a secret must have at least
MinSecretLen == 3

\* String.prototype.trim: white space is removed from both ends
WhiteSpace == {" "}

RECURSIVE trimStart(_)
trimStart(str) ==
    IF str # <<>> /\ Head(str) \in WhiteSpace THEN trimStart(Tail(str))
    ELSE str

RECURSIVE trimEnd(_)
trimEnd(str) ==
    IF str # <<>> /\ str[Len(str)] \in WhiteSpace
    THEN trimEnd(SubSeq(str, 1, Len(str) - 1))
    ELSE str

trim(str) == trimEnd(trimStart(str))

\* a faulty login: a wrong secret for an existing user still refreshes the
\* login time
login_touch(text, username, password, now) ==
    IF username = <<>> \/ Len(trim(username)) = 0
    THEN Returns([success |-> FALSE, message |-> MESSAGES.noUsername], text)
    ELSE IF password = <<>> \/ Len(password) < MinSecretLen
    THEN Returns([success |-> FALSE, message |-> MESSAGES.shortPassword],
                 text)
    ELSE LET trimmedUsername == trim(username)
             existingUser == getUser(text, trimmedUsername)
         IN  IF existingUser.threw THEN Throws(text)
             ELSE IF existingUser.ret # NoUser
             THEN LET t1 == updateLoginTime(text, trimmedUsername, now)
                  IN  IF verifyPassword(text, trimmedUsername, password).ret
                      THEN LET t2 == setCurrentUser(t1.item, trimmedUsername)
                           IN  Returns([success |-> TRUE,
                                        message |-> MESSAGES.loginOk,
                                        isNewUser |-> FALSE], t2.item)
                      ELSE Returns([success |-> FALSE,
                                    message |-> MESSAGES.wrongPassword],
                                   t1.item)
             ELSE LET t1 == createUser(text, trimmedUsername, password, now)
                      t2 == setCurrentUser(t1.item, trimmedUsername)
                  IN  Returns([success |-> TRUE,
                               message |-> MESSAGES.registered,
                               isNewUser |-> TRUE], t2.item)

\* lines 13-40; once getUser has returned, the record is an object with a
\* users mapping and no later call throws
login(text, username, password, now) ==
    IF username = <<>> \/ Len(trim(username)) = 0
    THEN Returns([success |-> FALSE, message |-> MESSAGES.noUsername], text)
    ELSE IF password = <<>> \/ Len(password) < MinSecretLen
    THEN Returns([success |-> FALSE, message |-> MESSAGES.shortPassword],
                 text)
    ELSE LET trimmedUsername == trim(username)
             existingUser == getUser(text, trimmedUsername)
         IN  IF existingUser.threw THEN Throws(text)
             ELSE IF existingUser.ret # NoUser
             THEN IF verifyPassword(text, trimmedUsername, password).ret
                  THEN LET t1 == updateLoginTime(text, trimmedUsername, now)
                           t2 == setCurrentUser(t1.item, trimmedUsername)
                       IN  Returns([success |-> TRUE,
                                    message |-> MESSAGES.loginOk,
                                    isNewUser |-> FALSE], t2.item)
                  ELSE Returns([success |-> FALSE,
                                message |-> MESSAGES.wrongPassword], text)
             ELSE LET t1 == createUser(text, trimmedUsername, password, now)
                      t2 == setCurrentUser(t1.item, trimmedUsername)
                  IN  Returns([success |-> TRUE,
                               message |-> MESSAGES.registered,
                               isNewUser |-> TRUE], t2.item)

\* lines 45-47
logout(text) == setCurrentUser(text, Null)

\* lines 53-55: undefined is not null
isLoggedIn(text) ==
    LET got == getCurrentUser(text)
    IN  IF got.threw THEN Throws(text) ELSE Returns(got.ret # Null, text)

\* lines 61-63
getCurrentUsername(text) == getCurrentUser(text)

\* the null that getCurrentUserStats returns for no session
NoStats == [type |-> "null"]

\* a faulty getCurrentUserStats: the guest's name is looked up like any other
getCurrentUserStats_noGuest(text) ==
    LET got == getCurrentUser(text)
    IN  IF got.threw THEN Throws(text)
        ELSE IF got.ret \in {Null, Undefined, <<>>} THEN Returns(NoStats, text)
        ELSE getUserStats(text, got.ret)

\* lines 69-77: null, undefined and the empty string are falsy
getCurrentUserStats(text) ==
    LET got == getCurrentUser(text)
    IN  IF got.threw THEN Throws(text)
        ELSE IF got.ret \in {Null, Undefined, <<>>} THEN Returns(NoStats, text)
        ELSE IF got.ret = Guest THEN Returns(ZeroStats, text)
        ELSE getUserStats(text, got.ret)

\* lines 83-86
loginAsGuest(text) ==
    LET set == setCurrentUser(text, Guest)
    IN  IF set.threw THEN Throws(text)
        ELSE Returns([success |-> TRUE, message |-> MESSAGES.guest,
                      isGuest |-> TRUE], set.item)

\* lines 92-94
isGuest(text) ==
    LET got == getCurrentUser(text)
    IN  IF got.threw THEN Throws(text) ELSE Returns(got.ret = Guest, text)

----------------------------------------------------------------------------
(* Actions: one per call of the public API, key event and timer firing     *)

\* the engine state n is what the operation op, run in the current state,
\* left
CommitEngine(n, op, arg) ==
    /\ canvas' = n.canvas
    /\ listening' = n.listening
    /\ snake' = n.snake
    /\ food' = n.food
    /\ direction' = n.direction
    /\ nextDirection' = n.nextDirection
    /\ score' = n.score
    /\ gameState' = n.gameState
    /\ gameLoop' = n.gameLoop
    /\ speed' = n.speed
    /\ onScoreUpdate' = n.onScoreUpdate
    /\ onGameOver' = n.onGameOver
    /\ timers' = n.timers
    /\ hist' = n.hist
    /\ last' = [op |-> op, arg |-> arg, from |-> gameState]

\* an operation on the engine alone: the page is as it was
Commit(n, op, arg) == CommitEngine(n, op, arg) /\ UNCHANGED pageVars

\* the engine after the script has been evaluated
EngineInit ==
    /\ canvas = FALSE
    /\ listening = FALSE
    /\ snake = <<>>
    /\ food = NoFood
    /\ direction = DIRECTIONS.RIGHT
    /\ nextDirection = DIRECTIONS.RIGHT
    /\ score = 0
    /\ gameState = STATES.IDLE
    /\ gameLoop = NoTimer
    /\ speed = CONFIG.initialSpeed
    /\ onScoreUpdate = FALSE
    /\ onGameOver = FALSE
    /\ timers = {}
    /\ hist = NoHist
    /\ last = [op |-> "load", arg |-> "", from |-> STATES.IDLE]

\* the page after its scripts have been evaluated, before its init has run
PageInit ==
    /\ page = "loading"
    /\ screen = "none"
    /\ overlay = LoadedOverlay
    /\ currentScore = LoadedText
    /\ registered = NoUsers
    /\ call = [name |-> "script", threw |-> FALSE]

\* the engine on a page whose store is empty
Init == EngineInit /\ PageInit /\ item = NoItem

\* the snake every reset makes, for which its spawnFood draws
FreshSnake ==
    << <<Centre, Centre>>, <<Centre - 1, Centre>>, <<Centre - 2, Centre>> >>

\* the candidate head of the next tick
Candidate == Add(snake[1], nextDirection)

\* the candidate head of the next tick is off the grid or on the snake,
\* tail included
Colliding ==
    \/ Candidate[1] < 0 \/ Candidate[1] >= CONFIG.gridSize
    \/ Candidate[2] < 0 \/ Candidate[2] >= CONFIG.gridSize
    \/ Candidate \in Range(snake)

\* the next tick is a food-eating tick
Eating == gameState = STATES.PLAYING /\ ~Colliding /\ Candidate = food

\* the history of a tick: one more tick, one more food-eating tick
Ticked(n) ==
    [n EXCEPT !.hist.ticks = @ + 1,
              !.hist.eaten = IF Eating THEN @ + 1 ELSE @]

InitCall ==
    \E cbs \in CallbackSets : \E n \in init(Eng, cbs, Draws(FreshSnake)) :
        Commit(n, "init", "")

ResetCall == \E n \in reset(Eng, Draws(FreshSnake)) : Commit(n, "reset", "")

StartCall == \E n \in start(Eng, Draws(FreshSnake)) : Commit(n, "start", "")

TogglePauseCall ==
    \E n \in {togglePause(Eng)} : Commit(n, "togglePause", "")

DestroyCall == \E n \in {destroy(Eng)} : Commit(n, "destroy", "")

\* what a key code asks for: the start/pause key, a direction, or nothing
Asked(code) ==
    IF code = "Space" THEN "Space"
    ELSE IF code \in {"ArrowUp", "KeyW"} THEN "UP"
    ELSE IF code \in {"ArrowDown", "KeyS"} THEN "DOWN"
    ELSE IF code \in {"ArrowLeft", "KeyA"} THEN "LEFT"
    ELSE IF code \in {"ArrowRight", "KeyD"} THEN "RIGHT"
    ELSE ""

\* a keydown event reaches the engine while its listener is registered; a
\* key that queues a turn is explored before the first TurnTicks ticks
KeyDown ==
    /\ listening
    /\ \E code \in KeyCodes :
          \E n \in handleKeyDown(Eng, code, Draws(FreshSnake)) :
             /\ n.nextDirection = n.direction \/ n.hist.ticks < TurnTicks
             /\ Commit(n, "key", Asked(code))

\* a live interval timer fires and runs update
Tick ==
    /\ timers # {}
    /\ hist.ticks < MaxTicks
    /\ \E n \in update(Eng, Draws(<<Candidate>> \o snake)) :
          Commit(Ticked(n), "tick", "")

Next ==
    \/ InitCall
    \/ ResetCall
    \/ StartCall
    \/ TogglePauseCall
    \/ DestroyCall
    \/ KeyDown
    \/ Tick

Spec == Init /\ [][Next]_vars

----------------------------------------------------------------------------
(* A long game: the behaviours of the engine in which the player steers    *)
(* the snake along the rows of the grid (rightwards along the starting     *)
(* row, down one cell at the wall, leftwards along the next row, ...) and  *)
(* Math.random always draws the cell ahead of the head, so that every tick *)
(* eats.  It reaches the speeds that MaxTicks keeps out of Spec.           *)

\* the direction of the route at the cell h
ScriptDir(h) ==
    IF (h[2] - Centre) % 2 = 0
    THEN IF h[1] < CONFIG.gridSize - 1
         THEN DIRECTIONS.RIGHT ELSE DIRECTIONS.DOWN
    ELSE IF h[1] > 0 THEN DIRECTIONS.LEFT ELSE DIRECTIONS.DOWN

\* the key that asks for the direction d
ScriptKey(d) ==
    IF d = DIRECTIONS.UP THEN "ArrowUp"
    ELSE IF d = DIRECTIONS.DOWN THEN "ArrowDown"
    ELSE IF d = DIRECTIONS.LEFT THEN "ArrowLeft"
    ELSE "ArrowRight"

\* the draw of Math.random when the head is on h: the next cell of the route
ScriptDraws(h) == {Add(h, ScriptDir(h))}

LongInit ==
    /\ ~canvas
    /\ \E n \in init(Eng, [onScoreUpdate |-> TRUE, onGameOver |-> TRUE],
                      ScriptDraws(FreshSnake[1])) :
          Commit(n, "init", "")

LongStart ==
    /\ canvas
    /\ gameState = STATES.IDLE
    /\ \E n \in start(Eng, ScriptDraws(FreshSnake[1])) :
          Commit(n, "start", "")

LongKey ==
    /\ listening
    /\ gameState = STATES.PLAYING
    /\ nextDirection # ScriptDir(snake[1])
    /\ \E n \in handleKeyDown(Eng, ScriptKey(ScriptDir(snake[1])), {}) :
          Commit(n, "key", Asked(ScriptKey(ScriptDir(snake[1]))))

LongTick ==
    /\ timers # {}
    /\ hist.ticks < MaxLongTicks
    /\ nextDirection = ScriptDir(snake[1])
    /\ \E n \in update(Eng, ScriptDraws(Candidate)) :
          Commit(Ticked(n), "tick", "")

NextLong ==
    \/ LongInit
    \/ LongStart
    \/ LongKey
    \/ LongTick
    \/ TogglePauseCall

SpecLong == Init /\ [][NextLong]_vars

----------------------------------------------------------------------------
(* app.js: the page around the engine.  A handler is an operator from a    *)
(* page record (the engine record, the item, the visible screen, the       *)
(* overlay, the score's text) to the set of page records it can leave;     *)
(* threw is set when it was aborted by an exception, result is what the    *)
(* auth call it made returned.                                             *)

\* game.js lines 161-163 and 169-171: the engine's getters
getState(g) == g.gameState
getScore(g) == g.score

NoResult == [type |-> "undefined"]

Page ==
    [eng |-> Eng, item |-> item, screen |-> screen, overlay |-> overlay,
     currentScore |-> currentScore, result |-> NoResult, threw |-> FALSE]

\* the handler was aborted by an exception
Aborted(a) == [a EXCEPT !.threw = TRUE]

\* lines 147-150: the callbacks showGameScreen registers
Callbacks == [onScoreUpdate |-> TRUE, onGameOver |-> TRUE]

\* lines 153, 193, 195, 227: the titles the overlay is shown with
TITLES ==
    [ready |-> "Ready", paused |-> "Paused", gameOver |-> "Game over",
     newRecord |-> "New record!"]

\* lines 204-208
showOverlay(a, title) ==
    [a EXCEPT !.overlay = [display |-> "shown", title |-> title]]

\* lines 213-215
hideOverlay(a) == [a EXCEPT !.overlay.display = "hidden"]

\* String(n) of a natural number: its decimal digits
Digits == <<"0", "1", "2", "3", "4", "5", "6", "7", "8", "9">>
RECURSIVE String(_)
String(n) ==
    IF n < 10 THEN <<Digits[n + 1]>>
    ELSE String(n \div 10) \o <<Digits[(n % 10) + 1]>>

\* String.prototype.padStart with a filler of one character
padStart(str, n, c) ==
    IF Len(str) >= n THEN str ELSE [i \in 1..(n - Len(str)) |-> c] \o str

\* lines 171-173; points is the score parameter
handleScoreUpdate(a, points) ==
    [a EXCEPT !.currentScore = padStart(String(points), 3, "0")]

\* lines 118-129
showLoginScreen(a) == [a EXCEPT !.screen = "login"]

\* lines 159-165: the statistics are read and, unless null, displayed
updateStats(a) ==
    IF getCurrentUserStats(a.item).threw THEN Aborted(a) ELSE a

\* lines 134-154
showGameScreen(a, rnd) ==
    LET a1 == [a EXCEPT !.screen = "game"]
    IN  IF getCurrentUsername(a1.item).threw \/ isGuest(a1.item).threw
        THEN {Aborted(a1)}
        ELSE IF updateStats(a1).threw THEN {Aborted(a1)}
        ELSE {showOverlay([a1 EXCEPT !.eng = e], TITLES.ready) :
                 e \in init(a1.eng, Callbacks, rnd)}

\* lines 40-50: the page's init, up to bindEvents
appInit(a, rnd) ==
    LET logged == isLoggedIn(a.item)
    IN  IF logged.threw THEN {Aborted(a)}
        ELSE IF logged.ret THEN showGameScreen(a, rnd)
        ELSE {showLoginScreen(a)}

\* lines 73-87
handleLogin(a, username, password, now, rnd) ==
    LET res == login(a.item, username, password, now)
        a1 == [a EXCEPT !.item = res.item, !.result = res.ret]
    IN  IF res.threw THEN {Aborted(a)}
        ELSE IF res.ret.success THEN showGameScreen(a1, rnd)
        ELSE {a1}

\* lines 92-95
handleGuestLogin(a, rnd) ==
    LET res == loginAsGuest(a.item)
        a1 == [a EXCEPT !.item = res.item, !.result = res.ret]
    IN  IF res.threw THEN {Aborted(a)} ELSE showGameScreen(a1, rnd)

\* lines 100-104
handleRestart(a, rnd) ==
    {hideOverlay([a EXCEPT !.eng = e]) :
        e \in UNION {start(h, rnd) : h \in reset(a.eng, rnd)}}

\* lines 109-113
handleLogout(a) ==
    LET res == logout(a.item)
    IN  IF res.threw THEN Aborted(a)
        ELSE showLoginScreen([a EXCEPT !.item = res.item,
                                       !.eng = destroy(a.eng)])

\* lines 189-196: the overlay a game ends with
gameOverOverlay(a, finalScore) ==
    LET stats == getCurrentUserStats(a.item).ret
        isNewHighScore ==
            /\ "highScore" \in DOMAIN stats
            /\ finalScore = stats.highScore
            /\ finalScore > 0
    IN  IF stats = NoStats THEN Aborted(a)
        ELSE IF isNewHighScore THEN showOverlay(a, TITLES.newRecord)
        ELSE showOverlay(a, TITLES.gameOver)

\* a faulty handleGameOver: the statistics are saved for the guest too
handleGameOver_saveGuest(a, finalScore) ==
    LET name == getCurrentUsername(a.item)
        upd == updateGameStats(a.item, name.ret, finalScore)
        a1 == [a EXCEPT !.item = upd.item]
    IN  IF name.threw THEN Aborted(a)
        ELSE IF upd.threw \/ updateStats(a1).threw THEN Aborted(a1)
        ELSE gameOverOverlay(a1, finalScore)

\* lines 179-197; reading stats.highScore throws when the statistics are null
handleGameOver(a, finalScore) ==
    LET guest == isGuest(a.item)
        name == getCurrentUsername(a.item)
        upd == updateGameStats(a.item, name.ret, finalScore)
        a1 == IF guest.ret THEN a ELSE [a EXCEPT !.item = upd.item]
    IN  IF guest.threw THEN Aborted(a)
        ELSE IF ~guest.ret /\ (upd.threw \/ updateStats(a1).threw)
        THEN Aborted(a1)
        ELSE gameOverOverlay(a1, finalScore)

\* lines 220-230: the page's keydown listener
onKeyDown(a, code) ==
    IF code = "Space" /\ a.screen = "game"
    THEN IF getState(a.eng) = STATES.PLAYING THEN hideOverlay(a)
         ELSE IF getState(a.eng) = STATES.PAUSED
         THEN showOverlay(a, TITLES.paused)
         ELSE a
    ELSE a

----------------------------------------------------------------------------
(* The page's inputs and actions                                           *)

\* all strings of at most n of the characters
Strings(chars, n) == UNION {[1..k -> chars] : k \in 0..n}

\* the secrets typed into the form: every string of at most the shortest
\* accepted length, and the longer ones of one repeated character
Secrets ==
    Strings(SecretChars, MinSecretLen)
        \cup {[i \in 1..k |-> "A"] : k \in MinSecretLen..MaxSecretLen}

\* the usernames typed into the form: none, blank, a name with and without
\* white space around it, the guest's reserved name, an inherited name
Alice == <<"a">>
Usernames ==
    {<<>>, <<" ">>, Alice, <<" ">> \o Alice \o <<" ">>, Guest} \cup ProtoNames

\* the form's contents: the plain name with every secret, every username
\* with no secret and with one accepted secret
Credentials ==
    ({Alice} \X Secrets) \cup (Usernames \X {<<>>, <<"A", "A", "A">>})

\* two points in time at which new Date() is read
Times == {1, 2}

\* the items an earlier visit or another script can have left in the store
InitialItems ==
    {NoItem, EmptyItem, GarbageItem, stringify(getDefaultData),
     stringify(JsonNull), stringify(JsonNumber), stringify(JsonNoUsers)}

\* the names that have a record in the store
UsersOf(text) ==
    IF HasUsers(getData(text)) THEN DOMAIN getData(text).users ELSE {}

\* the engine as the evaluation of its script leaves it
FreshEngine ==
    [canvas |-> FALSE, listening |-> FALSE, snake |-> <<>>, food |-> NoFood,
     direction |-> DIRECTIONS.RIGHT, nextDirection |-> DIRECTIONS.RIGHT,
     score |-> 0, gameState |-> STATES.IDLE, gameLoop |-> NoTimer,
     speed |-> CONFIG.initialSpeed, onScoreUpdate |-> FALSE,
     onGameOver |-> FALSE, timers |-> {}, hist |-> NoHist, threw |-> FALSE]

\* the page record n is what the handler name, run in the current state, left
CommitPage(n, name) ==
    /\ CommitEngine(n.eng, name, "")
    /\ item' = n.item
    /\ screen' = n.screen
    /\ overlay' = n.overlay
    /\ currentScore' = n.currentScore
    /\ call' = [name |-> name, result |-> n.result, threw |-> n.threw]

\* Math.random's draws on the page: the cell right of the fresh head
FirstDraw == {Add(FreshSnake[1], DIRECTIONS.RIGHT)}

\* DOMContentLoaded: the page's init runs once
AppInit ==
    /\ page = "loading"
    /\ \E n \in appInit(Page, FirstDraw) :
          /\ CommitPage(n, "init")
          /\ page' = IF n.threw THEN "failed" ELSE "ready"
    /\ UNCHANGED registered

\* the login form is submitted with the credentials c at the time now
SubmitLogin(c, now) ==
    /\ page = "ready" /\ screen = "login"
    /\ \E n \in handleLogin(Page, c[1], c[2], now, FirstDraw) :
          /\ CommitPage(n, "login")
          /\ registered' =
                IF trim(c[1]) \in UsersOf(n.item) \ UsersOf(item)
                THEN Put(registered, trim(c[1]), c[2])
                ELSE registered
    /\ UNCHANGED page

HandleLogin == \E c \in Credentials : \E now \in Times : SubmitLogin(c, now)

\* the guest button is clicked
HandleGuestLogin ==
    /\ page = "ready" /\ screen = "login"
    /\ \E n \in handleGuestLogin(Page, FirstDraw) : CommitPage(n, "guest")
    /\ UNCHANGED <<page, registered>>

\* the logout button is clicked
HandleLogout ==
    /\ page = "ready" /\ screen = "game"
    /\ \E n \in {handleLogout(Page)} : CommitPage(n, "logout")
    /\ UNCHANGED <<page, registered>>

\* the page is loaded again: the scripts are evaluated anew, the store stays
Reload ==
    /\ page # "loading"
    /\ CommitEngine(FreshEngine, "load", "")
    /\ page' = "loading"
    /\ screen' = "none"
    /\ overlay' = LoadedOverlay
    /\ currentScore' = LoadedText
    /\ call' = [name |-> "script", threw |-> FALSE]
    /\ UNCHANGED <<item, registered>>

\* the page on a store that an earlier visit or another script has left
InitAuth == EngineInit /\ PageInit /\ item \in InitialItems

NextAuth ==
    \/ AppInit
    \/ HandleLogin
    \/ HandleGuestLogin
    \/ HandleLogout
    \/ Reload

SpecAuth == InitAuth /\ [][NextAuth]_vars

----------------------------------------------------------------------------
(* The page with a running game: the snake runs straight to the right wall *)
(* and Math.random draws the cell ahead of the head or a cell off its row. *)

\* the form's contents while games are played
AppCredentials == {<<Alice, <<"A", "A", "A">> >>, <<Guest, <<"A", "A", "A">> >>}

AppLogin == \E c \in AppCredentials : SubmitLogin(c, 1)

\* a cell the snake never comes to on its way to the right wall
OffPath == <<Centre, Centre - 1>>

\* Math.random's draws when a game is set up again
AgainDraws == FirstDraw \cup {OffPath}

\* Math.random's draws in a food-eating tick: the cell ahead of the new head
\* for the first MaxAppFoods foods of a game
TickDraws ==
    IF hist.eaten + 1 < MaxAppFoods
    THEN {Add(Candidate, nextDirection), OffPath}
    ELSE {OffPath}

\* the games played that the store records for the session's user
Played ==
    LET data == getData(item)
    IN  IF HasUsers(data) /\ data.currentUser \in DOMAIN data.users
        THEN data.users[data.currentUser].gamesPlayed
        ELSE 0

\* the restart button is clicked
HandleRestart ==
    /\ page = "ready" /\ screen = "game"
    /\ \E n \in handleRestart(Page, AgainDraws) : CommitPage(n, "restart")
    /\ UNCHANGED <<page, registered>>

\* the start/pause key is pressed: the page's listener, registered when its
\* script was evaluated, runs first, then the engine's, registered by init
AppKeyDown ==
    /\ listening
    /\ \E a \in {onKeyDown(Page, "Space")} :
          \E n \in handleKeyDown(a.eng, "Space", AgainDraws) :
              /\ CommitEngine(n, "key", Asked("Space"))
              /\ overlay' = a.overlay
              /\ UNCHANGED <<item, page, screen, currentScore, registered,
                             call>>

\* a live interval timer fires and runs update; a colliding tick calls the
\* page's handleGameOver with the final score
AppTick ==
    /\ timers # {}
    /\ hist.ticks < MaxTicks
    /\ Colliding => Played < MaxGames
    /\ \E n \in update(Eng, TickDraws) :
          LET a0 == [Page EXCEPT !.eng = Ticked(n)]
              ended == n.hist.overCalls > hist.overCalls
              a == IF n.hist.scoreCalls > hist.scoreCalls
                   THEN handleScoreUpdate(a0, n.hist.scoreArg)
                   ELSE IF ended THEN handleGameOver(a0, n.hist.overArg)
                   ELSE a0
          IN  /\ CommitEngine(a.eng, "tick", "")
              /\ item' = a.item
              /\ screen' = a.screen
              /\ overlay' = a.overlay
              /\ currentScore' = a.currentScore
              /\ call' = IF ended
                         THEN [name |-> "gameOver", result |-> n.hist.overArg,
                               threw |-> a.threw]
                         ELSE call
              /\ UNCHANGED <<page, registered>>

NextApp ==
    \/ AppInit
    \/ AppLogin
    \/ HandleGuestLogin
    \/ HandleLogout
    \/ HandleRestart
    \/ AppKeyDown
    \/ AppTick
    \/ Reload

SpecApp == Init /\ [][NextApp]_vars

----------------------------------------------------------------------------
(* What a step was                                                         *)

\* the engine was initialised at least once (init never unbinds the canvas)
Inited == canvas

\* the operation of a step, read off the history variable of its end state:
\* a Space key event runs start() in Idle and GameOver, else togglePause()
ByStart(l) ==
    \/ l.op = "start"
    \/ l.op = "key" /\ l.arg = "Space"
          /\ l.from \in {STATES.IDLE, STATES.GAME_OVER}

ByTogglePause(l) ==
    \/ l.op = "togglePause"
    \/ l.op = "key" /\ l.arg = "Space"
          /\ l.from \in {STATES.PLAYING, STATES.PAUSED}

\* reset() called directly or by init (start's own reset is part of start)
ByReset(l) == l.op \in {"reset", "init"}

ByTick(l) == l.op = "tick"

----------------------------------------------------------------------------
(* C1: the transitions of GameState                                        *)

\* the transitions of the state machine table
TableTransition ==
    \/ gameState = STATES.IDLE /\ gameState' = STATES.PLAYING
          /\ ByStart(last')
    \/ gameState = STATES.GAME_OVER /\ gameState' = STATES.PLAYING
          /\ ByStart(last')
    \/ gameState = STATES.PLAYING /\ gameState' = STATES.PAUSED
          /\ ByTogglePause(last')
    \/ gameState = STATES.PAUSED /\ gameState' = STATES.PLAYING
          /\ ByTogglePause(last')
    \/ gameState = STATES.PLAYING /\ gameState' = STATES.GAME_OVER
          /\ ByTick(last') /\ checkCollision(Candidate, snake)
    \/ gameState' = STATES.IDLE /\ ByReset(last')

\* C1 as stated: after init the state is Idle, and every change of GameState
\* is one of the six transitions of the table; start() changes the state only
\* from Idle or GameOver.
C1_TableOnly ==
    [][/\ last'.op = "init" => gameState' = STATES.IDLE
       /\ gameState' # gameState => TableTransition]_vars

\* C1 amended: after init the state is Idle, and every change of GameState is
\* one of the six transitions of the table or Paused -> Playing by start()
\* (which resumes the paused game without a reset).
C1_Transitions ==
    [][/\ last'.op = "init" => gameState' = STATES.IDLE
       /\ gameState' # gameState =>
             \/ TableTransition
             \/ gameState = STATES.PAUSED /\ gameState' = STATES.PLAYING
                   /\ last'.op = "start"]_vars

\* start() has resumed a paused game that had run some ticks
C1_Witness ==
    /\ Inited
    /\ last.op = "start" /\ last.from = STATES.PAUSED
    /\ gameState = STATES.PLAYING
    /\ hist.ticks > 0

----------------------------------------------------------------------------
(* C2: a colliding tick ends the game                                      *)

\* the engine state a tick works on
Board == <<snake, food, score, speed, direction, nextDirection>>

\* C2: a tick in state Playing whose candidate head is off the grid or on any
\* snake segment (tail included) makes the state GameOver, stops the timer,
\* invokes the registered onGameOver once with the current score and leaves
\* snake, food and score unchanged; and in GameOver no timer is live and the
\* board, the state and the timer change only by start() or reset().
C2_CollisionEndsGame ==
    [][/\ (ByTick(last') /\ gameState = STATES.PLAYING /\ Colliding) =>
             /\ gameState' = STATES.GAME_OVER
             /\ timers' = {} /\ gameLoop' = NoTimer
             /\ snake' = snake /\ food' = food /\ score' = score
             /\ hist'.overCalls =
                    hist.overCalls + (IF onGameOver THEN 1 ELSE 0)
             /\ onGameOver => hist'.overArg = score
       /\ gameState' = STATES.GAME_OVER => timers' = {}
       /\ (gameState = STATES.GAME_OVER
             /\ <<Board, gameState, gameLoop, timers>>' #
                    <<Board, gameState, gameLoop, timers>>) =>
             ByStart(last') \/ ByReset(last')]_vars

\* the game has just ended on a tick that ran into the tail cell, and the
\* callback was invoked once with the score
C2_Witness ==
    /\ last.op = "tick" /\ gameState = STATES.GAME_OVER
    /\ Add(snake[1], direction) = snake[Len(snake)]
    /\ onGameOver /\ hist.overCalls = 1 /\ hist.overArg = score
    /\ score > 0

\* the game has just ended on a tick that ran into the right wall
WallHit ==
    /\ last.op = "tick" /\ gameState = STATES.GAME_OVER
    /\ Add(snake[1], direction)[1] = CONFIG.gridSize

----------------------------------------------------------------------------
(* C3: no reversal                                                         *)

\* C3: the direction a tick commits is never the reverse of the direction
\* committed before it, and the pending direction is never the reverse of
\* the committed direction.
C3_NoReversal ==
    /\ [](nextDirection # Reverse(direction))
    /\ [][(ByTick(last') /\ gameState = STATES.PLAYING) =>
             direction' # Reverse(direction)]_vars

\* the snake, which starts rightwards, has been turned to go left, by two
\* accepted turns
C3_Witness ==
    /\ last.op = "tick" /\ gameState = STATES.PLAYING
    /\ direction = DIRECTIONS.LEFT
    /\ hist.ticks >= 2

----------------------------------------------------------------------------
(* C4: start() in Idle                                                     *)

\* exactly one timer is live, the engine holds its handle, and its interval
\* is the current speed
TimerLiveAtSpeed ==
    /\ gameLoop # NoTimer
    /\ timers = {[id |-> gameLoop, ms |-> speed]}

\* food is one cell of the grid that no snake segment is on
FoodOnFreeCell == food \in Cells /\ food \notin Range(snake)

\* C4 as stated: start() in Idle leaves snake, food, score, speed and both
\* directions as they were; only the state (Playing) and the timer (live at
\* the current speed) change.
C4_StartKeepsBoard ==
    [][(Inited /\ ByStart(last') /\ gameState = STATES.IDLE) =>
          /\ Board' = Board
          /\ gameState' = STATES.PLAYING
          /\ TimerLiveAtSpeed']_vars

\* C4 amended: start() in Idle runs reset() first: snake, score, speed and both
\* directions are the same after the call as before it (Idle is always
\* fresh), the food is spawned again on a free cell and may have moved, the
\* state is Playing and the timer is live at the current speed.
C4_StartRespawnsFood ==
    [][(Inited /\ ByStart(last') /\ gameState = STATES.IDLE) =>
          /\ snake' = snake /\ score' = score /\ speed' = speed
          /\ direction' = direction /\ nextDirection' = nextDirection
          /\ FoodOnFreeCell'
          /\ gameState' = STATES.PLAYING
          /\ TimerLiveAtSpeed']_vars

\* start() has just run in Idle
C4_Witness ==
    /\ Inited
    /\ last.op = "start" /\ last.from = STATES.IDLE
    /\ gameState = STATES.PLAYING
    /\ timers # {}

----------------------------------------------------------------------------
(* C5: reset()                                                             *)

\* C5: reset(), called in any state, leaves the state Idle, the snake
\* (c,c),(c-1,c),(c-2,c) with c = floor(N/2), which is (10,10),(9,10),(8,10),
\* both directions Right, score 0, the speed initial, one food on a free cell
\* and no live timer.
C5_ResetIsFresh ==
    last.op = "reset" =>
        /\ gameState = STATES.IDLE
        /\ snake = << <<Centre, Centre>>, <<Centre - 1, Centre>>,
                      <<Centre - 2, Centre>> >>
        /\ snake = << <<10, 10>>, <<9, 10>>, <<8, 10>> >>
        /\ direction = DIRECTIONS.RIGHT /\ nextDirection = DIRECTIONS.RIGHT
        /\ score = 0
        /\ speed = CONFIG.initialSpeed
        /\ FoodOnFreeCell
        /\ timers = {} /\ gameLoop = NoTimer

\* reset() has just run on a game that was being played
C5_Witness ==
    /\ Inited
    /\ last.op = "reset" /\ last.from = STATES.PLAYING
    /\ gameState = STATES.IDLE /\ timers = {}

----------------------------------------------------------------------------
(* C6: calls in an invalid state                                           *)

\* C6: togglePause() in Idle or GameOver and start() in Playing leave the
\* state, the board, the callbacks and the timer as they were.
C6_InvalidCallsAreNoOps ==
    [][(\/ last'.op = "togglePause"
             /\ gameState \in {STATES.IDLE, STATES.GAME_OVER}
        \/ last'.op = "start" /\ gameState = STATES.PLAYING) =>
          UNCHANGED <<Board, gameState, gameLoop, timers, canvas, listening,
                      onScoreUpdate, onGameOver, hist>>]_vars

\* start() has just been called on a running game
C6_Witness ==
    /\ last.op = "start" /\ last.from = STATES.PLAYING
    /\ gameState = STATES.PLAYING
    /\ timers # {} /\ hist.ticks > 0

\* togglePause() has just been called on a finished game
C6_WitnessPause ==
    /\ last.op = "togglePause" /\ last.from = STATES.GAME_OVER
    /\ gameState = STATES.GAME_OVER

----------------------------------------------------------------------------
(* C7: destroy()                                                           *)

\* destroy() was called and init has not been called since
Destroyed == Inited /\ ~listening

\* C7 as stated: between destroy() and the next init() no timer is live,
\* whatever start(), togglePause() and reset() calls are made.
C7_DestroyedHasNoTimer == Destroyed => timers = {}

----------------------------------------------------------------------------
(* C8: the score                                                           *)

\* C8: the score is 10 times the number of food-eating ticks since the last
\* reset, and the registered onScoreUpdate was invoked once per food-eating
\* tick, last with the score.
C8_ScoreCountsFood ==
    /\ score = 10 * hist.eaten
    /\ score >= 0
    /\ hist.scoreCalls = (IF onScoreUpdate THEN hist.eaten ELSE 0)
    /\ (onScoreUpdate /\ hist.eaten > 0) => hist.scoreArg = score

\* the second food of a game has just been eaten
C8_Witness ==
    /\ last.op = "tick" /\ hist.eaten = 2
    /\ score = 20
    /\ onScoreUpdate /\ hist.scoreCalls = 2 /\ hist.scoreArg = 20

----------------------------------------------------------------------------
(* C10: the food                                                           *)

\* C10: after init there is one food, inside the grid and on no snake
\* segment, in every state.
C10_FoodOffSnake == Inited => FoodOnFreeCell

\* a food has just been eaten where Math.random could have drawn the cell of
\* the new head or of another segment for the next food
C10_Witness ==
    /\ Inited
    /\ last.op = "tick" /\ hist.eaten >= 1
    /\ Len(snake) = 3 + hist.eaten
    /\ snake[1] \in Draws(snake)
    /\ FoodOnFreeCell

----------------------------------------------------------------------------
(* C9: the speed                                                           *)

Max(a, b) == IF a >= b THEN a ELSE b

\* C9: the speed is between the floor 50 and the initial 150 and equals
\* max(50, 150 - 2 * foods eaten since the reset); a food-eating tick lowers
\* it by exactly 2 above the floor and leaves it at the floor, no other tick
\* changes it, and it rises only by a reset.
C9_SpeedFloor ==
    /\ [](/\ 50 <= speed /\ speed <= 150
          /\ speed = Max(50, 150 - 2 * hist.eaten))
    /\ [][/\ ByTick(last') =>
                speed' = (IF ~Eating THEN speed
                          ELSE IF speed > 50 THEN speed - 2 ELSE speed)
          /\ speed' > speed => ByReset(last') \/ ByStart(last')]_vars

\* a food has just been eaten at the floor
C9_Witness ==
    /\ last.op = "tick" /\ hist.eaten > 50
    /\ Len(snake) = 3 + hist.eaten
    /\ speed = 50
    /\ timers = {[id |-> gameLoop, ms |-> 50]}

----------------------------------------------------------------------------
(* C15: the start/pause key and the engine's listener                      *)

\* the key event that has just been handled was the start/pause key
BySpaceKey(l) == l.op = "key" /\ l.arg = "Space"

\* the key event that has just been handled was any other key
ByOtherKey(l) == l.op = "key" /\ l.arg # "Space"

\* C15 as stated: the engine's key handler reacts only to the movement keys;
\* a Space key event delivered to its listener leaves the state and the
\* timer as they were.
C15_EngineIgnoresSpace ==
    [][BySpaceKey(last') =>
          /\ gameState' = gameState
          /\ timers' = timers /\ gameLoop' = gameLoop]_vars

\* C15 amended: the engine's key handler owns the start/pause key: a Space key
\* event delivered to its listener starts the game in Idle and GameOver
\* (state Playing, timer live at the current speed), pauses it in Playing
\* (state Paused, no timer) and resumes it in Paused (state Playing, timer
\* live); every other key leaves the state and the timer as they were.
C15_EngineOwnsSpace ==
    [][/\ BySpaceKey(last') =>
             IF gameState = STATES.PLAYING
             THEN gameState' = STATES.PAUSED
                  /\ timers' = {} /\ gameLoop' = NoTimer
             ELSE gameState' = STATES.PLAYING /\ TimerLiveAtSpeed'
       /\ ByOtherKey(last') =>
             /\ gameState' = gameState
             /\ timers' = timers /\ gameLoop' = gameLoop]_vars

\* a Space key event has just started the game from Idle
C15_Witness ==
    /\ BySpaceKey(last) /\ last.from = STATES.IDLE
    /\ gameState = STATES.PLAYING
    /\ TimerLiveAtSpeed

----------------------------------------------------------------------------
(* C16: the tick timer                                                     *)

\* C16: at most one tick timer is live at any instant and every live timer is
\* the one whose handle the engine holds; a step that creates a timer leaves
\* none of the timers that were live before it (the previous one is
\* cancelled first).
C16_OneTimer ==
    /\ [](/\ Cardinality(timers) <= 1
          /\ \A t \in timers : gameLoop # NoTimer /\ t.id = gameLoop)
    /\ [][timers' \ timers # {} => timers' \cap timers = {}]_vars

\* a food-eating tick has just replaced the running timer by a faster one
C16_Witness ==
    /\ last.op = "tick" /\ hist.eaten >= 1
    /\ speed < CONFIG.initialSpeed
    /\ timers = {[id |-> gameLoop, ms |-> speed]}

----------------------------------------------------------------------------
(* C17: the movement of a non-colliding tick                               *)

\* the snake S moved to the cell c: c in front, the last segment gone
Moved(S, c) == <<c>> \o SubSeq(S, 1, Len(S) - 1)

\* the snake S grown by the cell c: c in front, every old segment kept
Grown(S, c) == <<c>> \o S

\* C17: a non-colliding tick in Playing with snake S, committed direction d
\* and food f leaves [S[0]+d] ++ S (one longer) when S[0]+d = f, and
\* [S[0]+d] ++ S without its last segment (same length) otherwise; the snake
\* (10,10),(9,10),(8,10) heading Right with the food elsewhere becomes
\* (11,10),(10,10),(9,10).
C17_TickMovesSnake ==
    [][(ByTick(last') /\ gameState = STATES.PLAYING /\ ~Colliding) =>
          LET c == Add(snake[1], direction')
          IN  /\ snake' = (IF c = food THEN Grown(snake, c)
                           ELSE Moved(snake, c))
              /\ Len(snake') = (IF c = food THEN Len(snake) + 1
                                ELSE Len(snake))
              /\ (/\ snake = << <<10, 10>>, <<9, 10>>, <<8, 10>> >>
                  /\ direction' = DIRECTIONS.RIGHT
                  /\ food # <<11, 10>>)
                 => snake' = << <<11, 10>>, <<10, 10>>, <<9, 10>> >>]_vars

\* the first tick of a game has just moved the fresh snake one cell to the
\* right
C17_Witness ==
    /\ last.op = "tick" /\ hist.ticks = 1 /\ hist.eaten = 0
    /\ snake = << <<11, 10>>, <<10, 10>>, <<9, 10>> >>

\* a food-eating tick has just grown the snake by the cell of the food
C17_WitnessGrown ==
    /\ last.op = "tick" /\ hist.eaten = 1
    /\ Len(snake) = 4
    /\ score = 10

----------------------------------------------------------------------------
(* C18: the shape of the snake                                             *)

\* the cells a and b share an edge
Adjacent(a, b) ==
    \/ a[1] = b[1] /\ (a[2] = b[2] + 1 \/ b[2] = a[2] + 1)
    \/ a[2] = b[2] /\ (a[1] = b[1] + 1 \/ b[1] = a[1] + 1)

\* C18: in every state after init the snake has at least 3 segments, every
\* segment is a cell of the grid, no two segments are on the same cell, and
\* consecutive segments are adjacent cells.
C18_SnakeShape ==
    Inited =>
        /\ Len(snake) >= 3
        /\ \A i \in 1..Len(snake) : snake[i] \in Cells
        /\ \A i, j \in 1..Len(snake) : i # j => snake[i] # snake[j]
        /\ \A i \in 1..(Len(snake) - 1) : Adjacent(snake[i], snake[i + 1])

\* a tick has just moved a snake that has grown and turned
C18_Witness ==
    /\ last.op = "tick" /\ hist.eaten >= 1
    /\ Len(snake) >= 4
    /\ snake[1][2] # snake[Len(snake)][2]

----------------------------------------------------------------------------
(* C19: directional input is buffered                                      *)

\* the names of the directions a key asks for
DirNames == {"UP", "DOWN", "LEFT", "RIGHT"}

\* the direction of a name
DirOf(name) == DIRECTIONS[name]

\* C19: a key press other than the start/pause key never changes the committed
\* direction or the snake; it changes the pending direction only to the
\* direction it asks for and only if that is not the reverse of the committed
\* direction (a reverse press leaves the pending direction as it was, a
\* non-reverse press in Playing is accepted even when it reverses the pending
\* one); the next tick commits the pending direction, which is the last
\* accepted press, and moves the head by it.
C19_BufferedInput ==
    [][/\ ByOtherKey(last') =>
             /\ direction' = direction /\ snake' = snake
             /\ food' = food /\ score' = score /\ speed' = speed
             /\ nextDirection' # nextDirection =>
                   /\ last'.arg \in DirNames
                   /\ nextDirection' = DirOf(last'.arg)
                   /\ nextDirection' # Reverse(direction)
             /\ (last'.arg \in DirNames /\ gameState = STATES.PLAYING) =>
                   nextDirection' = (IF DirOf(last'.arg) = Reverse(direction)
                                     THEN nextDirection
                                     ELSE DirOf(last'.arg))
       /\ (ByTick(last') /\ gameState = STATES.PLAYING) =>
             /\ direction' = nextDirection
             /\ nextDirection' = nextDirection
             /\ ~Colliding => snake'[1] = Add(snake[1], nextDirection)]_vars

\* a press that reverses the pending direction, not the committed one, has
\* just been accepted
C19_Witness ==
    /\ ByOtherKey(last) /\ last.arg = "DOWN" /\ last.from = STATES.PLAYING
    /\ direction = DIRECTIONS.RIGHT
    /\ nextDirection = DIRECTIONS.DOWN
    /\ hist.ticks >= 1

----------------------------------------------------------------------------
(* C20: the timer and the Playing state                                    *)

\* C20: in every state reachable through init, start, togglePause, reset,
\* destroy, key events and ticks, a timer is live if and only if getState()
\* reports Playing.
C20_TimerIffPlaying ==
    Inited => (timers # {} <=> gameState = STATES.PLAYING)

\* a timer is live only in Playing: the half of C20 that destroy() keeps
C20_TimerOnlyInPlaying ==
    timers # {} => gameState = STATES.PLAYING

----------------------------------------------------------------------------
(* C11: a wrong secret                                                     *)

\* C11: for a registered username, login with a secret of at least 3
\* characters that differs from the one the username was registered with
\* fails with the password-error result, and login with the registered
\* secret succeeds.
C11_WrongSecretFails ==
    \A name \in DOMAIN registered : \A password \in Secrets :
        LET res == login(item, name, password, 1)
        IN  /\ (Len(password) >= 3 /\ password # registered[name]) =>
                  /\ ~res.threw
                  /\ ~res.ret.success
                  /\ res.ret.message = MESSAGES.wrongPassword
            /\ password = registered[name] =>
                  ~res.threw /\ res.ret.success /\ ~res.ret.isNewUser

\* the half of C11 that holds: login with the registered secret succeeds
C11_RegisteredSecretSucceeds ==
    \A name \in DOMAIN registered :
        LET res == login(item, name, registered[name], 1)
        IN  ~res.threw /\ res.ret.success /\ ~res.ret.isNewUser

----------------------------------------------------------------------------
(* C12: failed logins                                                      *)

\* the messages of the failure results
FailureMessages ==
    {MESSAGES.noUsername, MESSAGES.shortPassword, MESSAGES.wrongPassword}

\* the last handler was a login that returned a failure
LoginFailed(c) == c.name = "login" /\ ~c.threw /\ ~c.result.success

\* C12: login with an empty or blank username or with a secret shorter than
\* 3 characters, and every login for an existing username that is rejected,
\* returns success = false with a message and does not throw; a login that
\* returns a failure leaves the store as it was (no user record created or
\* modified, the session user unchanged) and the screen too.
C12_FailedLoginIsInert ==
    /\ [](\A c \in Credentials : \A now \in Times :
             LET res == login(item, c[1], c[2], now)
             IN  /\ (Len(trim(c[1])) = 0 \/ Len(c[2]) < 3) =>
                       ~res.threw /\ ~res.ret.success
                 /\ trim(c[1]) \in UsersOf(item) => ~res.threw
                 /\ (~res.threw /\ ~res.ret.success) =>
                       /\ res.ret.message \in FailureMessages
                       /\ res.item = item)
    /\ [][LoginFailed(call') =>
             /\ item' = item
             /\ registered' = registered
             /\ screen' = screen]_vars

\* a login with a wrong secret for a registered user has just been rejected
C12_Witness ==
    /\ LoginFailed(call)
    /\ call.result.message = MESSAGES.wrongPassword
    /\ Alice \in UsersOf(item)
    /\ getCurrentUser(item).ret = Null
    /\ screen = "login"

----------------------------------------------------------------------------
(* C13: the guest session                                                  *)

\* the session user is the guest's reserved name
GuestSession == ~getCurrentUser(item).threw /\ getCurrentUser(item).ret = Guest

\* the step is a colliding tick, which calls the page's handleGameOver
GameOverStep ==
    /\ ByTick(last')
    /\ gameState = STATES.PLAYING /\ gameState' = STATES.GAME_OVER

\* C13: while the session user is the guest's reserved name the reported
\* statistics are highScore 0, gamesPlayed 0, totalScore 0, and a game over
\* leaves the store as it was, whatever the final score and however many
\* games were played.
C13_GuestIsNotPersisted ==
    /\ [](GuestSession => getCurrentUserStats(item).ret = ZeroStats)
    /\ [][(GuestSession /\ GameOverStep) =>
             /\ item' = item
             /\ call'.name = "gameOver" /\ ~call'.threw
             /\ call'.result = score]_vars

\* a guest's game has just ended with a positive score while the store holds
\* a record under the reserved name
C13_Witness ==
    /\ GuestSession
    /\ last.op = "tick" /\ gameState = STATES.GAME_OVER
    /\ score > 0 /\ hist.overArg = score
    /\ Guest \in UsersOf(item)

----------------------------------------------------------------------------
(* C14: a corrupted store                                                  *)

\* the item holds a text for a default record
DefaultItem == stringify(getDefaultData)

\* the item is not valid JSON
Unparseable(text) == text.form = "garbage"

\* the item is not valid JSON, or is valid JSON that is not an object with a
\* users mapping
Corrupted(text) ==
    Unparseable(text) \/ (text.form = "json" /\ ~HasUsers(parse(text)))

\* the call that left r did not throw, returned what the call that left d
\* returned and left the same record
SameAs(r, d) ==
    ~r.threw /\ r.ret = d.ret /\ getData(r.item) = getData(d.item)

\* every persistence operation on the item behaves as on a default record
BehavesAsDefault(text) ==
    \A name \in {Alice, Guest} :
        LET secret == <<"A", "A", "A">>
        IN  /\ SameAs(getUser(text, name), getUser(DefaultItem, name))
            /\ SameAs(createUser(text, name, secret, 1),
                      createUser(DefaultItem, name, secret, 1))
            /\ SameAs(verifyPassword(text, name, secret),
                      verifyPassword(DefaultItem, name, secret))
            /\ SameAs(getCurrentUser(text), getCurrentUser(DefaultItem))
            /\ SameAs(setCurrentUser(text, name),
                      setCurrentUser(DefaultItem, name))
            /\ SameAs(updateGameStats(text, name, 10),
                      updateGameStats(DefaultItem, name, 10))
            /\ SameAs(getUserStats(text, name), getUserStats(DefaultItem, name))

\* C14: when the item is corrupted or unparseable, every persistence
\* operation behaves as if the record were the empty default and does not
\* throw.
C14_CorruptedIsDefault == Corrupted(item) => BehavesAsDefault(item)

\* the part of C14 that holds: an item that JSON.parse rejects is treated as
\* the default record
C14_UnparseableIsDefault == Unparseable(item) => BehavesAsDefault(item)

----------------------------------------------------------------------------
(* C21: the overlay after the start/pause key                              *)

\* the overlay is hidden
OverlayHidden == overlay.display = "hidden"

\* C21: on the game screen, once a press of the start/pause key has been
\* handled by the page's listener and by the engine's, the overlay is hidden
\* if and only if the engine is Playing.
C21_OverlayHiddenIffPlaying ==
    (screen = "game" /\ BySpaceKey(last)) =>
        (OverlayHidden <=> gameState = STATES.PLAYING)

\* what the two listeners leave instead: the page's listener runs before the
\* engine's and reads the state the press is about to end; only a press in
\* GameOver leaves Playing with the overlay hidden or shown as it was
C21_OverlayLagsOnePress ==
    (screen = "game" /\ BySpaceKey(last)) =>
        /\ last.from = STATES.IDLE => ~OverlayHidden
        /\ last.from = STATES.PLAYING =>
              OverlayHidden /\ gameState = STATES.PAUSED
        /\ last.from = STATES.PAUSED =>
              /\ ~OverlayHidden
              /\ overlay.title = TITLES.paused
              /\ gameState = STATES.PLAYING

----------------------------------------------------------------------------
(* C22: the guest's reserved name and the login form                       *)

\* the last handler of the page was a login that succeeded
LoggedInByForm ==
    call.name = "login" /\ ~call.threw /\ call.result.success

\* the store holds a record under the session user's name
RegisteredSession ==
    /\ ~getCurrentUser(item).threw
    /\ getCurrentUser(item).ret \in UsersOf(item)

\* C22: no login(name, secret) makes the session user the guest's reserved
\* name, and every game over of a session whose user has a record in the
\* store adds a game to that record.
C22_GuestOnlyByLoginAsGuest ==
    /\ [](LoggedInByForm => ~GuestSession)
    /\ [][(RegisteredSession /\ GameOverStep) => Played' = Played + 1]_vars

\* the games of every registered user but the one registered under the
\* reserved name are recorded
C22_OthersArePersisted ==
    [][(RegisteredSession /\ ~GuestSession /\ GameOverStep) =>
          Played' = Played + 1]_vars

----------------------------------------------------------------------------
(* C23: the score the page shows                                           *)

\* the number a text of decimal digits reads as
RECURSIVE Number(_)
Number(str) ==
    IF str = <<>> THEN 0
    ELSE 10 * Number(SubSeq(str, 1, Len(str) - 1))
            + (CHOOSE d \in 0..9 : Digits[d + 1] = str[Len(str)])

\* the page has written the score's text (onScoreUpdate has been called
\* since the document was loaded)
ScoreWritten == currentScore # LoadedText

\* C23: once the page has written the score's text, the score it shows is
\* the engine's getScore() in every state: during a game, after reset(),
\* after a restart by the button or by the key, after a new init.
C23_ShownScoreIsScore == ScoreWritten => Number(currentScore) = getScore(Eng)

\* what holds instead: the text is the score with three digits from the
\* first food of a game on, and is left as it was by reset()
C23_ShownSinceFirstFood ==
    hist.scoreCalls > 0 =>
        /\ Number(currentScore) = getScore(Eng)
        /\ Len(currentScore) = 3

----------------------------------------------------------------------------
(* C24: the statistics and the overlay of a game over                      *)

\* the record the store holds under the session user's name
SessionRecord == getData(item).users[getData(item).currentUser]

\* a game of a registered user who is not the guest ends
RegisteredGameOver == RegisteredSession /\ ~GuestSession /\ GameOverStep

\* the game over counts the game, adds its score to the total and keeps the
\* greater of the old high score and the final score
StatsUpdated ==
    /\ SessionRecord'.gamesPlayed = SessionRecord.gamesPlayed + 1
    /\ SessionRecord'.totalScore = SessionRecord.totalScore + call'.result
    /\ SessionRecord'.highScore = Max(SessionRecord.highScore, call'.result)

\* C24: a game over of a registered user who is not the guest increases
\* gamesPlayed by one, adds the final score to totalScore and sets highScore
\* to the greater of the old high score and the final score; the overlay it
\* shows has the new-record title only when the final score is strictly
\* greater than the high score before that game.
C24_StatsAndNewRecord ==
    [][RegisteredGameOver =>
          /\ StatsUpdated
          /\ overlay'.display = "shown"
          /\ overlay'.title = TITLES.newRecord =>
                call'.result > SessionRecord.highScore]_vars

\* the part on the stored statistics
C24_StatsUpdated == [][RegisteredGameOver => StatsUpdated]_vars

\* the title the overlay has instead: the new-record one exactly when the
\* final score is positive and not below the high score before the game
C24_NewRecordOnTie ==
    [][RegisteredGameOver =>
          /\ overlay'.display = "shown"
          /\ overlay'.title \in {TITLES.newRecord, TITLES.gameOver}
          /\ overlay'.title = TITLES.newRecord <=>
                /\ call'.result > 0
                /\ call'.result >= SessionRecord.highScore]_vars

====
